---------------------------- MODULE Spec2Model ----------------------------
(***************************************************************************)
(* Model of tools/validate_schema.py: the JSONC comment stripper           *)
(* (strip_jsonc_comments), the validation run (main), the per-file         *)
(* diagnostics (validate_file, find_line_number) and the validator factory *)
(* (create_validator).  Each part is a state machine of its own with its   *)
(* own specification; the variables of the other parts stay idle.          *)
(***************************************************************************)
EXTENDS Integers, Sequences, FiniteSets, TLC

VARIABLES
    \* strip_jsonc_comments: its argument, locals and position
    text, i, state, result, spc,
    \* main: the command line and the file system it runs on
    schemaKind, resource_dirs, exclude_dirs, interface_files, fileKind,
    \* main: locals, position, standard output and exit status
    pc, all_valid, schema_store, globTodo,
    pipeline_validator, interface_validator,
    dirIdx, pending, ifIdx, reports, warnings, summary, exit_code,
    \* validate_file: the file it is given, what the validator finds in it,
    \* its locals, position, standard output and return value
    file_lines, can_reread, load_raises, errors, idx, stdout, ret, vpc,
    \* the module-level flag of lines 10-20
    HAS_REFERENCING,
    \* create_validator and the references its validator resolves: the
    \* arguments, the validator, the resolutions made and the retrievals tried
    root_schema, given_store, ref_validator, resolutions, retrieved, rpc,
    \* create_validator: the "$schema" member of the root schema, and the
    \* locals ValidatorClass and spec
    dollar_schema, ValidatorClass, spec,
    \* download_MAA_fw.py, main: its arguments, what the release server and
    \* the machine answer, its locals, position and effects
    is_debug, is_delete, releases, combo_key,
    download_options, auto_update, file_ver, selected_release, url_ver,
    prompts, downloads, extracted, deleted, raised, dpc

stripVars == <<text, i, state, result, spc>>
envVars == <<schemaKind, resource_dirs, exclude_dirs, interface_files>>
mainVars == <<fileKind, pc, all_valid, schema_store, globTodo,
              pipeline_validator, interface_validator,
              dirIdx, pending, ifIdx, reports, warnings, summary, exit_code>>
fileVars == <<file_lines, can_reread, load_raises, errors, idx, stdout, ret, vpc>>
refVars == <<root_schema, given_store, ref_validator, resolutions, retrieved, rpc,
             dollar_schema, ValidatorClass, spec>>
dlVars == <<is_debug, is_delete, releases, combo_key,
            download_options, auto_update, file_ver, selected_release, url_ver,
            prompts, downloads, extracted, deleted, raised, dpc>>
vars == <<stripVars, envVars, mainVars, fileVars, HAS_REFERENCING, refVars, dlVars>>

\* what a step of one part leaves alone: the import flag and the variables
\* of the other parts
notStrip == <<envVars, mainVars, fileVars, HAS_REFERENCING, refVars, dlVars>>
notMain == <<envVars, stripVars, fileVars, HAS_REFERENCING, refVars, dlVars>>
notFile == <<envVars, mainVars, stripVars, HAS_REFERENCING, refVars, dlVars>>
notRef == <<envVars, mainVars, stripVars, fileVars, HAS_REFERENCING, dlVars>>
notDl == <<envVars, mainVars, stripVars, fileVars, HAS_REFERENCING, refVars>>

(***************************************************************************)
(* Characters.  A text is a sequence of one-character strings.             *)
(***************************************************************************)
DQ == "\""
SL == "/"
ST == "*"
NL == "\n"
BS == "\\"
CH == "a"

Alphabet == {DQ, SL, ST, NL, BS, CH}

\* longest input text given to strip_jsonc_comments
MaxLen == 5

\* longer texts: string literals with escaped quotes, escaped backslashes
\* and comment-like sequences, between comments
LongTexts ==
    { <<DQ, BS, DQ, SL, SL, DQ, SL, SL, CH>>,
      <<DQ, SL, ST, BS, DQ, ST, SL, DQ>>,
      <<DQ, BS, BS, DQ, SL, SL, CH, NL, DQ>>,
      <<SL, ST, DQ, ST, SL, DQ, SL, SL, DQ, SL, SL, CH>>,
      <<DQ, SL, SL, BS, DQ, SL, ST>> }

Texts == (UNION {[1..n -> Alphabet] : n \in 0..MaxLen}) \cup LongTexts

\* Python text[k] (0-based)
At(t, k) == t[k + 1]

\* Python text[k : k + 2] == a + b, for k + 1 < len(text)
Pair(t, k, a, b) == At(t, k) = a /\ At(t, k + 1) = b

\* number of newline characters of a text
RECURSIVE Newlines(_)
Newlines(t) ==
    IF t = <<>> THEN 0
    ELSE (IF Head(t) = NL THEN 1 ELSE 0) + Newlines(Tail(t))

(***************************************************************************)
(* strip_jsonc_comments, lines 23-70.                                      *)
(***************************************************************************)

\* lines 42-46: while i < len(text) and text[i] != "\n": i += 1;
\* then the newline that ends the comment, if any, is kept
RECURSIVE LineCommentEnd(_, _)
LineCommentEnd(t, k) ==
    IF k < Len(t) /\ At(t, k) # NL THEN LineCommentEnd(t, k + 1) ELSE k

LineComment(t, k, out) ==
    LET e == LineCommentEnd(t, k)
    IN  IF e < Len(t) THEN [i |-> e + 1, result |-> Append(out, NL)]
        ELSE [i |-> e, result |-> out]

\* the scan without the test of line 51: every character of the comment is
\* appended
RECURSIVE BlockCommentScan_AppendsAll(_, _, _)
BlockCommentScan_AppendsAll(t, k, out) ==
    IF k + 1 < Len(t) /\ ~Pair(t, k, ST, SL)
    THEN BlockCommentScan_AppendsAll(t, k + 1, Append(out, At(t, k)))
    ELSE [i |-> k, result |-> out]

\* lines 50-53: while i + 1 < len(text) and text[i : i + 2] != "*/"
RECURSIVE BlockCommentScan(_, _, _)
BlockCommentScan(t, k, out) ==
    IF k + 1 < Len(t) /\ ~Pair(t, k, ST, SL)
    THEN BlockCommentScan(t, k + 1, IF At(t, k) = NL THEN Append(out, NL) ELSE out)
    ELSE [i |-> k, result |-> out]

\* the block comment without line 54: the closing */ is not skipped
BlockComment_NoSkip(t, k, out) ==
    LET s == BlockCommentScan(t, k + 2, out)
    IN  [i |-> s.i, result |-> s.result]

\* lines 49-54: i += 2; the scan; i += 2
BlockComment(t, k, out) ==
    LET s == BlockCommentScan(t, k + 2, out)
    IN  [i |-> s.i + 2, result |-> s.result]

\* the loop without its state 2: a backslash in a string changes nothing
StripStep_NoEscape(t, k, st, out) ==
    LET char == At(t, k)
    IN  IF st = 0
        THEN IF char = DQ
             THEN [i |-> k + 1, state |-> 1, result |-> Append(out, char)]
             ELSE IF k + 1 < Len(t) /\ Pair(t, k, SL, SL)
             THEN [state |-> 0] @@ LineComment(t, k, out)
             ELSE IF k + 1 < Len(t) /\ Pair(t, k, SL, ST)
             THEN [state |-> 0] @@ BlockComment(t, k, out)
             ELSE [i |-> k + 1, state |-> 0, result |-> Append(out, char)]
        ELSE [i |-> k + 1,
              state |-> IF char = DQ THEN 0 ELSE 1,
              result |-> Append(out, char)]

\* one iteration of the while loop of line 32, from (i, state, result)
StripStep(t, k, st, out) ==
    LET char == At(t, k)
    IN  IF st = 0
        THEN IF char = DQ
             THEN [i |-> k + 1, state |-> 1, result |-> Append(out, char)]
             ELSE IF k + 1 < Len(t) /\ Pair(t, k, SL, SL)
             THEN [state |-> 0] @@ LineComment(t, k, out)
             ELSE IF k + 1 < Len(t) /\ Pair(t, k, SL, ST)
             THEN [state |-> 0] @@ BlockComment(t, k, out)
             ELSE [i |-> k + 1, state |-> 0, result |-> Append(out, char)]
        ELSE IF st = 1
        THEN [i |-> k + 1,
              state |-> IF char = BS THEN 2 ELSE IF char = DQ THEN 0 ELSE 1,
              result |-> Append(out, char)]
        ELSE [i |-> k + 1, state |-> 1, result |-> Append(out, char)]

\* the whole scan: the text strip_jsonc_comments returns
RECURSIVE StripFrom(_, _, _, _)
StripFrom(t, k, st, out) ==
    IF k < Len(t)
    THEN LET n == StripStep(t, k, st, out) IN StripFrom(t, n.i, n.state, n.result)
    ELSE out

strip_jsonc_comments(t) == StripFrom(t, 0, 0, <<>>)

StripIdle ==
    /\ text = <<>>
    /\ i = 0
    /\ state = 0
    /\ result = <<>>
    /\ spc = "idle"

\* lines 28-30
StripCall ==
    /\ text \in Texts
    /\ i = 0
    /\ state = 0
    /\ result = <<>>
    /\ spc = "scan"

\* line 32, one iteration
StripIter ==
    /\ spc = "scan"
    /\ i < Len(text)
    /\ LET n == StripStep(text, i, state, result)
       IN  /\ i' = n.i
           /\ state' = n.state
           /\ result' = n.result
    /\ UNCHANGED <<text, spc>>
    /\ UNCHANGED notStrip

\* line 70
StripReturn ==
    /\ spc = "scan"
    /\ ~(i < Len(text))
    /\ spc' = "returned"
    /\ UNCHANGED <<text, i, state, result>>
    /\ UNCHANGED notStrip

StripNext == StripIter \/ StripReturn


(***************************************************************************)
(* main, lines 210-334: the file system and the command line.              *)
(***************************************************************************)

PipelineSchema == "pipeline.schema.json"
InterfaceSchema == "interface.schema.json"
AuxSchema == "custom.schema.json"

\* the *.json files the schema directory may hold
SchemaFiles == {PipelineSchema, InterfaceSchema, AuxSchema}

\* a schema file is absent, parses, or fails to parse
SchemaKinds == {"absent", "valid", "undecodable"}

\* directories and files below the working directory, as resolved paths
ResourceDir == <<"resource">>
SubDir == <<"resource", "sub">>
MissingDir == <<"missing">>
FileA == <<"resource", "a.json">>
FileB == <<"resource", "sub", "b.jsonc">>
ResourceFiles == {FileA, FileB}
ExistingDirs == {ResourceDir, SubDir}
DirArgs == {ResourceDir, SubDir, MissingDir}
Suffix(f) == IF f = FileA THEN ".json" ELSE ".jsonc"

InterfaceFile == <<"interface.json">>
MissingFile == <<"missing.json">>
InterfaceArgs == {InterfaceFile, MissingFile}

\* an existing target file: passes, violates the schema, is not JSON, or
\* cannot be read
FileKinds == {"valid", "invalid", "undecodable", "unreadable"}

\* longest --resource-dirs and --interface-files lists
MaxDirs == 2
MaxInterfaceFiles == 2

SeqsUpTo(S, n) == UNION {[1..k -> S] : k \in 1..n}

\* Path.exists()
Exists(p) == p \in ExistingDirs \cup ResourceFiles \cup {InterfaceFile}

\* Path.relative_to succeeds: base is the path itself or one of its parents
IsUnder(p, base) ==
    /\ Len(base) <= Len(p)
    /\ SubSeq(p, 1, Len(base)) = base

\* is_excluded comparing the excluded directory with the parent of the file
\* only
is_excluded_ParentOnly(file_path, exclude_paths) ==
    \E exclude_path \in exclude_paths :
        exclude_path = SubSeq(file_path, 1, Len(file_path) - 1)

\* lines 276-285
is_excluded(file_path, exclude_paths) ==
    \E exclude_path \in exclude_paths : IsUnder(file_path, exclude_path)

RECURSIVE SetToSeq(_)
SetToSeq(S) ==
    IF S = {} THEN <<>>
    ELSE LET x == CHOOSE y \in S : TRUE IN <<x>> \o SetToSeq(S \ {x})

\* resource_path.rglob("*" + suffix)
rglob(dir, suffix) ==
    SetToSeq({f \in ResourceFiles : IsUnder(f, dir) /\ f # dir /\ Suffix(f) = suffix})

\* the three keys of a schema file, lines 255-257
file_uri(name) == <<"file://", name>>
relative_path(name) == <<"./", name>>
absolute_path(name) == <<"/", name>>

\* schema_store[key] = doc
Put(store, key, doc) ==
    [k \in DOMAIN store \cup {key} |-> IF k = key THEN doc ELSE store[k]]

\* load_jsonc, lines 73-90: the document, or the exception it raises
load_jsonc(kind) ==
    CASE kind = "absent" -> "FileNotFoundError"
      [] kind = "unreadable" -> "OSError"
      [] kind = "undecodable" -> "JSONDecodeError"
      [] OTHER -> "document"

\* what json.loads makes of one successful load of a schema file: a new
\* object, told from the others by the line of main that loaded it, with
\* the content of the file
NewDoc(name, line) == [content |-> name, loaded |-> line]

\* validator.iter_errors(data): the number of errors of a loaded file
iter_errors(kind) == IF kind = "invalid" THEN 2 ELSE 0

\* validate_file without its except clause: a file that cannot be loaded
\* raises out of it
validate_file_Raises(kind) ==
    IF load_jsonc(kind) # "document"
    THEN [ret |-> FALSE, errors |-> 1, raised |-> TRUE]
    ELSE [ret |-> iter_errors(kind) = 0, errors |-> iter_errors(kind), raised |-> FALSE]

\* validate_file, lines 141-172: what it returns, the number of errors it
\* reports (an exception is reported as one error), and whether it raises
validate_file(kind) ==
    IF load_jsonc(kind) # "document"
    THEN [ret |-> FALSE, errors |-> 1, raised |-> FALSE]
    ELSE IF iter_errors(kind) > 0
    THEN [ret |-> FALSE, errors |-> iter_errors(kind), raised |-> FALSE]
    ELSE [ret |-> TRUE, errors |-> 0, raised |-> FALSE]

\* lines 196-204: the first key of the store whose content equals the
\* schema (its file URI, the key stored first), else a made-up URI
BaseUri(schema, store) ==
    IF /\ file_uri(schema.content) \in DOMAIN store
       /\ store[file_uri(schema.content)].content = schema.content
    THEN file_uri(schema.content)
    ELSE IF \E uri \in DOMAIN store : store[uri].content = schema.content
    THEN CHOOSE uri \in DOMAIN store : store[uri].content = schema.content
    ELSE <<"file://", "schema.json">>

\* create_validator, lines 175-207: the validator holds the root schema and
\* its own copy of the store.  With the referencing library it is a Registry
\* of the store's resources, built with no retrieve function; without, a
\* RefResolver over the store and the root schema under its base URI, which
\* retrieves what it does not hold.
create_validator(schema, store, has_referencing) ==
    IF has_referencing
    THEN [schema |-> schema, registry |-> store, resolution |-> "Registry"]
    ELSE [schema |-> schema,
          registry |-> Put(store, BaseUri(schema, store), schema),
          resolution |-> "RefResolver"]

NoValidator ==
    [schema |-> [content |-> "none", loaded |-> 0], registry |-> <<>>,
     resolution |-> "none"]

MainLocals ==
    /\ all_valid = TRUE
    /\ schema_store = <<>>
    /\ pipeline_validator = NoValidator
    /\ interface_validator = NoValidator
    /\ dirIdx = 1
    /\ pending = <<>>
    /\ ifIdx = 1
    /\ reports = <<>>
    /\ warnings = 0
    /\ summary = "none"
    /\ exit_code = -1

MainIdle ==
    /\ schemaKind = [f \in SchemaFiles |-> "absent"]
    /\ resource_dirs = <<>>
    /\ exclude_dirs = {}
    /\ interface_files = <<>>
    /\ fileKind = <<>>
    /\ globTodo = {}
    /\ pc = "idle"
    /\ MainLocals

\* lines 242-250: the arguments are parsed and the glob of the schema
\* directory begins
MainStart ==
    /\ schemaKind \in [SchemaFiles -> SchemaKinds]
    /\ resource_dirs \in SeqsUpTo(DirArgs, MaxDirs)
    /\ exclude_dirs \in SUBSET ExistingDirs
    /\ interface_files \in SeqsUpTo(InterfaceArgs, MaxInterfaceFiles)
    /\ fileKind = <<>>
    /\ globTodo = {f \in SchemaFiles : schemaKind[f] # "absent"}
    /\ pc = "glob"
    /\ MainLocals

\* an exception nobody catches: the interpreter prints the traceback and
\* exits with status 1
Uncaught ==
    /\ pc' = "crashed"
    /\ exit_code' = 1

\* the glob loop forgetting the third key of line 261
GlobSchema_NoAbsolute(schema_file) ==
    /\ pc = "glob"
    /\ schema_file \in globTodo
    /\ globTodo' = globTodo \ {schema_file}
    /\ IF load_jsonc(schemaKind[schema_file]) = "document"
       THEN LET schema == NewDoc(schema_file, 253)
            IN  /\ schema_store' =
                       Put(Put(schema_store, file_uri(schema_file), schema),
                           relative_path(schema_file), schema)
                /\ UNCHANGED warnings
       ELSE /\ warnings' = warnings + 1
            /\ UNCHANGED schema_store
    /\ UNCHANGED <<pc, all_valid, pipeline_validator, interface_validator,
                   dirIdx, pending, ifIdx, reports, summary, exit_code>>
    /\ UNCHANGED notMain
    /\ UNCHANGED fileKind

\* lines 251-263, one iteration of the glob loop
GlobSchema(schema_file) ==
    /\ pc = "glob"
    /\ schema_file \in globTodo
    /\ globTodo' = globTodo \ {schema_file}
    /\ IF load_jsonc(schemaKind[schema_file]) = "document"
       THEN LET schema == NewDoc(schema_file, 253)
            IN  /\ schema_store' =
                       Put(Put(Put(schema_store, file_uri(schema_file), schema),
                               relative_path(schema_file), schema),
                           absolute_path(schema_file), schema)
                /\ UNCHANGED warnings
       ELSE /\ warnings' = warnings + 1
            /\ UNCHANGED schema_store
    /\ UNCHANGED <<pc, all_valid, pipeline_validator, interface_validator,
                   dirIdx, pending, ifIdx, reports, summary, exit_code>>
    /\ UNCHANGED notMain
    /\ UNCHANGED fileKind

\* the root schema loaded under a try/except like that of the glob loop:
\* a failure is a warning and the run goes on
LoadRootSchema_Caught ==
    /\ pc = "glob"
    /\ globTodo = {}
    /\ IF load_jsonc(schemaKind[PipelineSchema]) = "document"
       THEN LET pipeline_schema == NewDoc(PipelineSchema, 267)
                store == Put(schema_store, file_uri(PipelineSchema), pipeline_schema)
            IN  /\ schema_store' = store
                /\ pipeline_validator' = create_validator(pipeline_schema, store, HAS_REFERENCING)
                /\ UNCHANGED warnings
       ELSE /\ warnings' = warnings + 1
            /\ UNCHANGED <<schema_store, pipeline_validator>>
    /\ pc' = "resources"
    /\ UNCHANGED <<all_valid, globTodo, interface_validator,
                   dirIdx, pending, ifIdx, reports, summary, exit_code>>
    /\ UNCHANGED notMain
    /\ UNCHANGED fileKind

\* lines 265-271: the root schema is loaded again, stored under its file
\* URI and bound to the pipeline validator
LoadRootSchema ==
    /\ pc = "glob"
    /\ globTodo = {}
    /\ IF load_jsonc(schemaKind[PipelineSchema]) = "document"
       THEN LET pipeline_schema == NewDoc(PipelineSchema, 267)
                store == Put(schema_store, file_uri(PipelineSchema), pipeline_schema)
            IN  /\ schema_store' = store
                /\ pipeline_validator' = create_validator(pipeline_schema, store, HAS_REFERENCING)
                /\ pc' = "resources"
                /\ UNCHANGED exit_code
       ELSE /\ Uncaught
            /\ UNCHANGED <<schema_store, pipeline_validator>>
    /\ UNCHANGED <<all_valid, globTodo, interface_validator,
                   dirIdx, pending, ifIdx, reports, warnings, summary>>
    /\ UNCHANGED notMain
    /\ UNCHANGED fileKind

\* a resource directory that does not exist counted as a failure
SkipResourceDir_Fails ==
    /\ pc = "resources"
    /\ dirIdx <= Len(resource_dirs)
    /\ ~Exists(resource_dirs[dirIdx])
    /\ warnings' = warnings + 1
    /\ dirIdx' = dirIdx + 1
    /\ all_valid' = FALSE
    /\ UNCHANGED <<pc, schema_store, globTodo,
                   pipeline_validator, interface_validator,
                   pending, ifIdx, reports, summary, exit_code>>
    /\ UNCHANGED notMain
    /\ UNCHANGED fileKind

\* lines 289-295: a resource directory that does not exist is skipped
SkipResourceDir ==
    /\ pc = "resources"
    /\ dirIdx <= Len(resource_dirs)
    /\ ~Exists(resource_dirs[dirIdx])
    /\ warnings' = warnings + 1
    /\ dirIdx' = dirIdx + 1
    /\ UNCHANGED <<pc, all_valid, schema_store, globTodo,
                   pipeline_validator, interface_validator,
                   pending, ifIdx, reports, summary, exit_code>>
    /\ UNCHANGED notMain
    /\ UNCHANGED fileKind

\* lines 297 and 303: the files of the directory, *.json before *.jsonc
EnterResourceDir ==
    /\ pc = "resources"
    /\ dirIdx <= Len(resource_dirs)
    /\ Exists(resource_dirs[dirIdx])
    /\ pending' = rglob(resource_dirs[dirIdx], ".json")
                      \o rglob(resource_dirs[dirIdx], ".jsonc")
    /\ pc' = "files"
    /\ UNCHANGED <<all_valid, schema_store, globTodo,
                   pipeline_validator, interface_validator,
                   dirIdx, ifIdx, reports, warnings, summary, exit_code>>
    /\ UNCHANGED notMain
    /\ UNCHANGED fileKind

\* lines 298-299 and 304-305
SkipExcluded ==
    /\ pc = "files"
    /\ pending # <<>>
    /\ is_excluded(Head(pending), exclude_dirs)
    /\ pending' = Tail(pending)
    /\ UNCHANGED <<pc, all_valid, schema_store, globTodo,
                   pipeline_validator, interface_validator,
                   dirIdx, ifIdx, reports, warnings, summary, exit_code>>
    /\ UNCHANGED notMain
    /\ UNCHANGED fileKind

\* the caller's side of validate_file(file_path, validator): the report of
\* the file and the flag, lines 300-301, 306-307 and 322-323
\* the caller writing all_valid = validate_file(...): a later file that
\* passes sets the flag again
Validated_Overwrite(file_path, validator) ==
    \E kind \in FileKinds :
        /\ file_path \in DOMAIN fileKind => kind = fileKind[file_path]
        /\ fileKind' = Put(fileKind, file_path, kind)
        /\ LET r == validate_file(kind)
           IN  /\ reports' = Append(reports,
                       [file |-> file_path, errors |-> r.errors, ret |-> r.ret,
                        schema |-> validator.schema.content])
               /\ all_valid' = r.ret
               /\ UNCHANGED <<pc, exit_code>>

\* The content of a file is found out when the file is first read, and is
\* the same at every later read.
Validated(file_path, validator) ==
    \E kind \in FileKinds :
        /\ file_path \in DOMAIN fileKind => kind = fileKind[file_path]
        /\ fileKind' = Put(fileKind, file_path, kind)
        /\ LET r == validate_file(kind)
           IN  IF r.raised
               THEN /\ Uncaught
                    /\ UNCHANGED <<reports, all_valid>>
               ELSE /\ reports' = Append(reports,
                           [file |-> file_path, errors |-> r.errors, ret |-> r.ret,
                            schema |-> validator.schema.content])
                    /\ all_valid' = IF ~r.ret THEN FALSE ELSE all_valid
                    /\ UNCHANGED <<pc, exit_code>>

\* lines 300-301 and 306-307
ValidateResource ==
    /\ pc = "files"
    /\ pending # <<>>
    /\ ~is_excluded(Head(pending), exclude_dirs)
    /\ Validated(Head(pending), pipeline_validator)
    /\ pending' = Tail(pending)
    /\ UNCHANGED <<schema_store, globTodo,
                   pipeline_validator, interface_validator,
                   dirIdx, ifIdx, warnings, summary>>
    /\ UNCHANGED notMain

\* the inner loops end: on to the next resource directory
LeaveResourceDir ==
    /\ pc = "files"
    /\ pending = <<>>
    /\ dirIdx' = dirIdx + 1
    /\ pc' = "resources"
    /\ UNCHANGED <<all_valid, schema_store, globTodo,
                   pipeline_validator, interface_validator,
                   pending, ifIdx, reports, warnings, summary, exit_code>>
    /\ UNCHANGED notMain
    /\ UNCHANGED fileKind

\* lines 309-312: no interface schema, no interface phase
SkipInterfacePhase ==
    /\ pc = "resources"
    /\ dirIdx > Len(resource_dirs)
    /\ schemaKind[InterfaceSchema] = "absent"
    /\ pc' = "summary"
    /\ UNCHANGED <<all_valid, schema_store, globTodo,
                   pipeline_validator, interface_validator,
                   dirIdx, pending, ifIdx, reports, warnings, summary, exit_code>>
    /\ UNCHANGED notMain
    /\ UNCHANGED fileKind

\* the interface schema stored under a key of its own instead of its file URI
LoadInterfaceSchema_NewKey ==
    /\ pc = "resources"
    /\ dirIdx > Len(resource_dirs)
    /\ schemaKind[InterfaceSchema] # "absent"
    /\ IF load_jsonc(schemaKind[InterfaceSchema]) = "document"
       THEN LET interface_schema == NewDoc(InterfaceSchema, 313)
                store == Put(schema_store, <<"interface", InterfaceSchema>>, interface_schema)
            IN  /\ schema_store' = store
                /\ interface_validator' = create_validator(interface_schema, store, HAS_REFERENCING)
                /\ pc' = "interfaces"
                /\ UNCHANGED exit_code
       ELSE /\ Uncaught
            /\ UNCHANGED <<schema_store, interface_validator>>
    /\ UNCHANGED <<all_valid, globTodo, pipeline_validator,
                   dirIdx, pending, ifIdx, reports, warnings, summary>>
    /\ UNCHANGED notMain
    /\ UNCHANGED fileKind

\* lines 313-317: the interface schema is loaded again, stored under its
\* file URI and bound to the interface validator
LoadInterfaceSchema ==
    /\ pc = "resources"
    /\ dirIdx > Len(resource_dirs)
    /\ schemaKind[InterfaceSchema] # "absent"
    /\ IF load_jsonc(schemaKind[InterfaceSchema]) = "document"
       THEN LET interface_schema == NewDoc(InterfaceSchema, 313)
                store == Put(schema_store, file_uri(InterfaceSchema), interface_schema)
            IN  /\ schema_store' = store
                /\ interface_validator' = create_validator(interface_schema, store, HAS_REFERENCING)
                /\ pc' = "interfaces"
                /\ UNCHANGED exit_code
       ELSE /\ Uncaught
            /\ UNCHANGED <<schema_store, interface_validator>>
    /\ UNCHANGED <<all_valid, globTodo, pipeline_validator,
                   dirIdx, pending, ifIdx, reports, warnings, summary>>
    /\ UNCHANGED notMain
    /\ UNCHANGED fileKind

\* lines 319-323
ValidateInterface ==
    /\ pc = "interfaces"
    /\ ifIdx <= Len(interface_files)
    /\ Exists(interface_files[ifIdx])
    /\ Validated(interface_files[ifIdx], interface_validator)
    /\ ifIdx' = ifIdx + 1
    /\ UNCHANGED <<schema_store, globTodo,
                   pipeline_validator, interface_validator,
                   dirIdx, pending, warnings, summary>>
    /\ UNCHANGED notMain

\* lines 324-327: an interface file that does not exist is skipped
SkipInterfaceFile ==
    /\ pc = "interfaces"
    /\ ifIdx <= Len(interface_files)
    /\ ~Exists(interface_files[ifIdx])
    /\ warnings' = warnings + 1
    /\ ifIdx' = ifIdx + 1
    /\ UNCHANGED <<pc, all_valid, schema_store, globTodo,
                   pipeline_validator, interface_validator,
                   dirIdx, pending, reports, summary, exit_code>>
    /\ UNCHANGED notMain
    /\ UNCHANGED fileKind

\* lines 329-334: the summary line and the exit status
Summary ==
    /\ \/ pc = "summary"
       \/ pc = "interfaces" /\ ifIdx > Len(interface_files)
    /\ summary' = IF all_valid THEN "passed" ELSE "failed"
    /\ exit_code' = IF all_valid THEN 0 ELSE 1
    /\ pc' = "done"
    /\ UNCHANGED <<all_valid, schema_store, globTodo,
                   pipeline_validator, interface_validator,
                   dirIdx, pending, ifIdx, reports, warnings>>
    /\ UNCHANGED notMain
    /\ UNCHANGED fileKind

MainNext ==
    \/ \E schema_file \in SchemaFiles : GlobSchema(schema_file)
    \/ LoadRootSchema
    \/ SkipResourceDir
    \/ EnterResourceDir
    \/ SkipExcluded
    \/ ValidateResource
    \/ LeaveResourceDir
    \/ SkipInterfacePhase
    \/ LoadInterfaceSchema
    \/ ValidateInterface
    \/ SkipInterfaceFile
    \/ Summary


(***************************************************************************)
(* validate_file, lines 141-172, with find_line_number, lines 106-138: the *)
(* diagnostics of one file.  Strings are sequences of characters.          *)
(***************************************************************************)

SP == " "
COLON == ":"
Whitespace == {SP, NL}

\* a segment of error.path: a key (string) or an index (integer)
StrSeg(s) == [isint |-> FALSE, n |-> 0, s |-> s]
IntSeg(n) == [isint |-> TRUE, n |-> n, s |-> <<>>]

Digit(n) == <<"0", "1", "2", "3", "4", "5", "6", "7", "8", "9">>[n + 1]

RECURSIVE Decimal(_)
Decimal(n) ==
    IF n < 10 THEN <<Digit(n)>> ELSE Decimal(n \div 10) \o <<Digit(n % 10)>>

\* str(p)
str(p) == IF p.isint THEN Decimal(p.n) ELSE p.s

\* sep.join(parts)
RECURSIVE Join(_, _)
Join(sep, parts) ==
    IF parts = <<>> THEN <<>>
    ELSE IF Len(parts) = 1 THEN parts[1]
    ELSE parts[1] \o sep \o Join(sep, Tail(parts))

\* s.split(sep), for a separator of one character
RECURSIVE Split(_, _)
Split(s, sep) ==
    IF \A k \in 1..Len(s) : s[k] # sep THEN <<s>>
    ELSE LET at == CHOOSE k \in 1..Len(s) :
                       s[k] = sep /\ \A j \in 1..(k - 1) : s[j] # sep
         IN  <<SubSeq(s, 1, at - 1)>> \o Split(SubSeq(s, at + 1, Len(s)), sep)

\* line 151
PathOf(error_path) ==
    IF error_path # <<>>
    THEN <<SL>> \o Join(<<SL>>, [k \in 1..Len(error_path) |-> str(error_path[k])])
    ELSE <<SL>>

\* line 138
None == -1

\* line 129 and 132: re.compile('"' + re.escape(key) + '"\s*:').search(line)
MatchAt(line, p, key) ==
    LET close == p + Len(key) + 1
    IN  /\ line[p] = DQ
        /\ close <= Len(line)
        /\ SubSeq(line, p + 1, close - 1) = key
        /\ line[close] = DQ
        /\ \E q \in (close + 1)..Len(line) :
               /\ line[q] = COLON
               /\ \A r \in (close + 1)..(q - 1) : line[r] \in Whitespace

Search(line, key) == \E p \in 1..Len(line) : MatchAt(line, p, key)

\* lines 131-133: the 1-based number of the first line that matches
FirstMatch(lines, key) ==
    IF \E k \in 1..Len(lines) : Search(lines[k], key)
    THEN CHOOSE k \in 1..Len(lines) :
             Search(lines[k], key) /\ \A j \in 1..(k - 1) : ~Search(lines[j], key)
    ELSE None

\* find_line_number returning the index of enumerate instead of i + 1
find_line_number_ZeroBased(lines, readable, json_path) ==
    IF json_path = <<>> \/ json_path = <<SL>> THEN None
    ELSE LET NonEmpty(p) == p # <<>>
             parts == SelectSeq(Split(json_path, SL), NonEmpty)
         IN  IF parts = <<>> THEN None
             ELSE IF ~readable THEN None
             ELSE IF FirstMatch(lines, parts[1]) = None THEN None
             ELSE FirstMatch(lines, parts[1]) - 1

\* find_line_number, lines 106-138; readable: open and readlines succeed
find_line_number(lines, readable, json_path) ==
    IF json_path = <<>> \/ json_path = <<SL>> THEN None
    ELSE LET NonEmpty(p) == p # <<>>
             parts == SelectSeq(Split(json_path, SL), NonEmpty)
         IN  IF parts = <<>> THEN None
             ELSE IF ~readable THEN None
             ELSE FirstMatch(lines, parts[1])

\* lines 150-163, one error: the annotation printed for it
Annotation(lines, readable, error) ==
    LET path == PathOf(error.path)
        line_num == find_line_number(lines, readable, path)
    IN  [title |-> "Schema Validation Error", path |-> path,
         has_line |-> line_num # None /\ line_num # 0, line |-> line_num,
         message |-> error.message]

\* the lines a file may hold
Quoted(key) == <<DQ>> \o key \o <<DQ>>
LineSamples ==
    << Quoted(<<"a">>) \o <<COLON, SP, "1">>,
       Quoted(<<"b">>) \o <<SP, COLON, SP>> \o Quoted(<<"a">>),
       Quoted(<<"a", SL, "b">>) \o <<COLON>>,
       Quoted(<<>>) \o <<COLON>>,
       Quoted(<<"0">>) \o <<COLON>> \o Quoted(<<"b">>),
       Quoted(<<"a">>) >>

\* the paths the validator may report
PathSamples ==
    << <<>>,
       <<StrSeg(<<"a">>)>>,
       <<StrSeg(<<"b">>)>>,
       <<StrSeg(<<"c">>)>>,
       <<StrSeg(<<>>)>>,
       <<StrSeg(<<>>), StrSeg(<<"b">>)>>,
       <<StrSeg(<<"a", SL, "b">>)>>,
       <<StrSeg(<<"b">>), StrSeg(<<"a">>)>>,
       <<IntSeg(0)>>,
       <<IntSeg(0), StrSeg(<<"a">>)>> >>

\* most lines of a file, most errors of a file
MaxLines == 2
MaxErrors == 12

\* line 150: errors[:10]
AnnotationLimit == 10

\* the error list of a file: n errors, their paths taken in turn from the
\* samples, starting at any of them
ErrorList(n, first) ==
    [k \in 1..n |->
        [path |-> PathSamples[((first + k - 2) % Len(PathSamples)) + 1],
         message |-> k]]

FileIdle ==
    /\ file_lines = <<>>
    /\ can_reread = TRUE
    /\ load_raises = FALSE
    /\ errors = <<>>
    /\ idx = 0
    /\ stdout = <<>>
    /\ ret = "none"
    /\ vpc = "idle"

\* validate_file is called
FileCall ==
    /\ \E n \in 0..MaxLines : \E pick \in [1..n -> 1..Len(LineSamples)] :
           file_lines = [k \in 1..n |-> LineSamples[pick[k]]]
    /\ can_reread \in BOOLEAN
    /\ \/ /\ load_raises = TRUE
          /\ errors = <<>>
       \/ /\ load_raises = FALSE
          /\ \E n \in 0..MaxErrors : \E first \in 1..Len(PathSamples) :
                 errors = ErrorList(n, first)
    /\ idx = 0
    /\ stdout = <<>>
    /\ ret = "none"
    /\ vpc = "load"

\* lines 168-172: load_jsonc or iter_errors raised
FileExcept ==
    /\ vpc = "load"
    /\ load_raises
    /\ stdout' = Append(stdout,
           [title |-> "Validation Error", path |-> <<>>, has_line |-> FALSE,
            line |-> None, message |-> 0])
    /\ ret' = "False"
    /\ vpc' = "returned"
    /\ UNCHANGED <<file_lines, can_reread, load_raises, errors, idx>>
    /\ UNCHANGED notFile

\* lines 144-147 and 166-167: no error
FilePasses ==
    /\ vpc = "load"
    /\ ~load_raises
    /\ errors = <<>>
    /\ ret' = "True"
    /\ vpc' = "returned"
    /\ UNCHANGED <<file_lines, can_reread, load_raises, errors, idx, stdout>>
    /\ UNCHANGED notFile

\* lines 147-149: errors, the loop over errors[:10] begins
FileFails ==
    /\ vpc = "load"
    /\ ~load_raises
    /\ errors # <<>>
    /\ idx' = 1
    /\ vpc' = "loop"
    /\ UNCHANGED <<file_lines, can_reread, load_raises, errors, stdout, ret>>
    /\ UNCHANGED notFile

\* lines 150-163, one iteration
AnnotateError ==
    /\ vpc = "loop"
    /\ idx <= Len(errors) /\ idx <= AnnotationLimit
    /\ stdout' = Append(stdout, Annotation(file_lines, can_reread, errors[idx]))
    /\ idx' = idx + 1
    /\ UNCHANGED <<file_lines, can_reread, load_raises, errors, ret, vpc>>
    /\ UNCHANGED notFile

\* line 164
FileReturnFalse ==
    /\ vpc = "loop"
    /\ ~(idx <= Len(errors) /\ idx <= AnnotationLimit)
    /\ ret' = "False"
    /\ vpc' = "returned"
    /\ UNCHANGED <<file_lines, can_reread, load_raises, errors, idx, stdout>>
    /\ UNCHANGED notFile

FileNext ==
    \/ FileExcept
    \/ FilePasses
    \/ FileFails
    \/ AnnotateError
    \/ FileReturnFalse

(***************************************************************************)
(* create_validator, lines 175-207, and the resolution of a $ref by the    *)
(* validator it returns.                                                   *)
(***************************************************************************)

\* lines 10-20: the import of referencing succeeds or not
Imported == HAS_REFERENCING \in BOOLEAN
ImportIdle == HAS_REFERENCING = TRUE

\* the store main builds from the schema files that load, lines 251-263
RECURSIVE StoreOf(_)
StoreOf(files) ==
    IF files = {} THEN <<>>
    ELSE LET f == CHOOSE g \in files : TRUE
             schema == NewDoc(f, 253)
         IN  Put(Put(Put(StoreOf(files \ {f}), file_uri(f), schema),
                     relative_path(f), schema),
                 absolute_path(f), schema)

\* a URI no schema file of the directory has: a remote document
RemoteUri == <<"https://", "example.org/defs.schema.json">>

\* the target URIs a $ref of the root schema may have
RefTargets ==
    {file_uri(AuxSchema), relative_path(AuxSchema), absolute_path(AuxSchema),
     relative_path(InterfaceSchema), RemoteUri}

\* a retrieval over the network
IsRemote(uri) == uri[1] = "https://"

\* most references resolved in one validation
MaxRefs == 2

\* a validator that has to retrieve the target: a RefResolver that does not
\* hold it
Retrieves(v, uri) == uri \notin DOMAIN v.registry /\ v.resolution = "RefResolver"

\* whether a retrieval gets a document: over the network it may or may not,
\* and a schema file that load_jsonc could not load is no JSON either
FetchOutcomes(v, uri) ==
    IF Retrieves(v, uri) /\ IsRemote(uri) THEN BOOLEAN ELSE {FALSE}

\* the resolution of a $ref with target uri by a validator.  A Registry
\* built without retrieve raises Unresolvable for a URI it does not hold; a
\* RefResolver tries to retrieve it (resolve_remote), and the outcome is
\* that of the retrieval.
Resolve(v, uri, fetch_ok) ==
    IF uri \in DOMAIN v.registry
    THEN [target |-> uri, outcome |-> "resolved", doc |-> v.registry[uri],
          retrieval |-> FALSE]
    ELSE IF ~Retrieves(v, uri)
    THEN [target |-> uri, outcome |-> "Unresolvable", doc |-> v.schema,
          retrieval |-> FALSE]
    ELSE [target |-> uri,
          outcome |-> IF fetch_ok THEN "retrieved" ELSE "RefResolutionError",
          doc |-> v.schema, retrieval |-> TRUE]

\* the "$schema" member of a schema: absent, or a string
NoDollarSchema == [has |-> FALSE, uri |-> <<>>]
DollarSchema(uri) == [has |-> TRUE, uri |-> uri]

\* the fragments lines 97 and 99 look for
Draft07Dash == <<"d", "r", "a", "f", "t", "-", "0", "7">>
Draft07Slash == <<"d", "r", "a", "f", "t", "/", "0", "7">>
Y2020 == <<"2", "0", "2", "0", "-", "1", "2">>

\* what stands before and after the fragment in a dialect URI
UriHead == <<"h", ":", "/", "/", "o", "/">>
UriTail == <<"/", "s", "#">>

\* the "$schema" strings a root schema may declare: the two dialects the
\* code knows, in both spellings of draft-07, a dialect it does not know,
\* a near miss in upper case, a string naming both dialects, and ""
DialectUris ==
    { UriHead \o Draft07Dash \o UriTail,
      UriHead \o Draft07Slash \o UriTail,
      UriHead \o <<"d", "r", "a", "f", "t", "/">> \o Y2020 \o UriTail,
      UriHead \o <<"d", "r", "a", "f", "t", "/", "2", "0", "1", "9", "-", "0", "9">> \o UriTail,
      UriHead \o <<"D", "R", "A", "F", "T", "-", "0", "7">> \o UriTail,
      UriHead \o Y2020 \o <<"/">> \o Draft07Dash,
      Y2020,
      <<>> }

DollarSchemas == {NoDollarSchema} \cup {DollarSchema(u) : u \in DialectUris}

\* Python: sub in s
Contains(s, sub) ==
    \E k \in 0..(Len(s) - Len(sub)) : SubSeq(s, k + 1, k + Len(sub)) = sub

\* get_validator_class falling back to draft-07
get_validator_class_Default7(ds) ==
    LET schema_uri == IF ds.has THEN ds.uri ELSE <<>>
    IN  IF Contains(schema_uri, Draft07Dash) \/ Contains(schema_uri, Draft07Slash)
        THEN "Draft7Validator"
        ELSE IF Contains(schema_uri, Y2020)
        THEN "Draft202012Validator"
        ELSE "Draft7Validator"

\* get_validator_class, lines 93-103, of a schema with the member ds
get_validator_class(ds) ==
    LET schema_uri == IF ds.has THEN ds.uri ELSE <<>>
    IN  IF Contains(schema_uri, Draft07Dash) \/ Contains(schema_uri, Draft07Slash)
        THEN "Draft7Validator"
        ELSE IF Contains(schema_uri, Y2020)
        THEN "Draft202012Validator"
        ELSE "Draft202012Validator"

\* line 184: the default_specification every resource of the registry gets
SpecOf(validator_class) ==
    IF validator_class = "Draft202012Validator" THEN "DRAFT202012" ELSE "DRAFT7"

RefIdle ==
    /\ root_schema = NoValidator.schema
    /\ given_store = <<>>
    /\ ref_validator = NoValidator
    /\ resolutions = <<>>
    /\ retrieved = {}
    /\ rpc = "idle"
    /\ dollar_schema = NoDollarSchema
    /\ ValidatorClass = "none"
    /\ spec = "none"

\* create_validator is called with a root schema and the store of the
\* schema files that loaded (the root schema among them)
FactoryCall ==
    /\ \E root \in {PipelineSchema, InterfaceSchema} :
       \E loaded \in SUBSET SchemaFiles :
           /\ root \in loaded
           /\ root_schema = NewDoc(root, 267)
           /\ given_store = Put(StoreOf(loaded), file_uri(root), NewDoc(root, 267))
    /\ dollar_schema \in DollarSchemas
    /\ ValidatorClass = "none"
    /\ spec = "none"
    /\ ref_validator = NoValidator
    /\ resolutions = <<>>
    /\ retrieved = {}
    /\ rpc = "create"

\* lines 175-207
CreateValidator ==
    /\ rpc = "create"
    /\ ValidatorClass' = get_validator_class(dollar_schema)
    /\ spec' = IF HAS_REFERENCING THEN SpecOf(ValidatorClass') ELSE "none"
    /\ ref_validator' = create_validator(root_schema, given_store, HAS_REFERENCING)
    /\ rpc' = "validating"
    /\ UNCHANGED <<root_schema, given_store, resolutions, retrieved, dollar_schema>>
    /\ UNCHANGED notRef

\* validator.iter_errors meets a $ref
ResolveRef ==
    /\ rpc = "validating"
    /\ Len(resolutions) < MaxRefs
    /\ \E uri \in RefTargets : \E fetch_ok \in FetchOutcomes(ref_validator, uri) :
           LET r == Resolve(ref_validator, uri, fetch_ok)
           IN  /\ resolutions' = Append(resolutions, r)
               /\ retrieved' = IF r.retrieval THEN retrieved \cup {uri} ELSE retrieved
    /\ UNCHANGED <<root_schema, given_store, ref_validator, rpc,
                   dollar_schema, ValidatorClass, spec>>
    /\ UNCHANGED notRef

RefNext == CreateValidator \/ ResolveRef

(***************************************************************************)
(* deps/tools/quick_update/download_MAA_fw.py: main, lines 392-428, with   *)
(* the selection of the download URL, lines 139-283.                       *)
(***************************************************************************)

\* Python values of url_ver: None, False, a string (its parts), and the
\* local not yet assigned
PyNone == [kind |-> "None", parts |-> <<>>]
PyFalse == [kind |-> "bool", parts |-> <<>>]
PyStr(parts) == [kind |-> "str", parts |-> parts]
Unassigned == [kind |-> "unassigned", parts |-> <<>>]

\* the assets and releases the server may list, line 204-217
AssetWin ==
    [name |-> <<"MAA", "win-x86_64", "v5.1.0">>,
     url |-> <<"https://github.com", "v5.1.0", "MAA-win-x86_64">>]
AssetLinux ==
    [name |-> <<"MAA", "linux-aarch64", "v5.1.0">>,
     url |-> <<"https://github.com", "v5.1.0", "MAA-linux-aarch64">>]
NewRelease == [version |-> "v5.1.0", assets |-> <<AssetWin, AssetLinux>>]
BareRelease == [version |-> "v5.0.0", assets |-> <<>>]

\* lines 189-193: the request fails, or answers a list of releases
ServerAnswers ==
    {[ok |-> FALSE, list |-> <<>>]} \cup
    {[ok |-> TRUE, list |-> l] :
        l \in {<<>>, <<NewRelease>>, <<BareRelease, NewRelease>>, <<NewRelease, BareRelease>>}}

\* get_local_platform, lines 126-136
Platforms == {"win-x86_64", "win-unknown"}

\* get_local_version_from_dll, lines 53-102
LocalVersions == {"NONE", "v5.1.0", "v5.0.0"}

\* what the user may type at a prompt
Choices == {"q", "Q", "0", "1", "9", "x"}

\* choice.lower() == 'q'
Quits(choice) == choice \in {"q", "Q"}

\* int(choice): the number, or ValueError
IsInt(choice) == choice \in {"0", "1", "9"}
int(choice) == IF choice = "0" THEN 0 ELSE IF choice = "1" THEN 1 ELSE 9

\* most answers a prompt rejects in one run
MaxPrompts == 2

\* Python: part in string, a string being the sequence of its parts
In(part, parts) == \E k \in 1..Len(parts) : parts[k] = part

\* get_github_download_options, lines 187-219: None, or the resource list
get_github_download_options(answer) ==
    IF ~answer.ok \/ answer.list = <<>>
    THEN [none |-> TRUE, list |-> <<>>]
    ELSE [none |-> FALSE, list |-> answer.list]

\* auto_ver_select, lines 139-159
auto_ver_select(resource_list, key) ==
    IF \E k \in 1..Len(resource_list) : In(key, resource_list[k].name)
    THEN LET first == CHOOSE k \in 1..Len(resource_list) :
                          /\ In(key, resource_list[k].name)
                          /\ \A j \in 1..(k - 1) : ~In(key, resource_list[j].name)
         IN  PyStr(resource_list[first].url)
    ELSE PyFalse

\* check_version, lines 286-297: file_ver in url_ver, a TypeError when
\* url_ver is not a string
check_version(fv, uv) ==
    IF uv.kind = "str"
    THEN [raises |-> FALSE, value |-> In(fv, uv.parts)]
    ELSE [raises |-> TRUE, value |-> FALSE]

DlLocals ==
    /\ download_options = [none |-> TRUE, list |-> <<>>]
    /\ auto_update = FALSE
    /\ file_ver = "NONE"
    /\ selected_release = 0
    /\ url_ver = Unassigned
    /\ prompts = 0
    /\ downloads = 0
    /\ extracted = FALSE
    /\ deleted = FALSE
    /\ raised = "none"

DlIdle ==
    /\ is_debug = FALSE
    /\ is_delete = TRUE
    /\ releases = [ok |-> FALSE, list |-> <<>>]
    /\ combo_key = "win-x86_64"
    /\ dpc = "idle"
    /\ DlLocals

\* lines 457-466: main is called
DlCall ==
    /\ is_debug \in BOOLEAN
    /\ is_delete \in BOOLEAN
    /\ releases \in ServerAnswers
    /\ combo_key \in Platforms
    /\ dpc = "options"
    /\ DlLocals

\* lines 393-397
GetOptions ==
    /\ dpc = "options"
    /\ download_options' = get_github_download_options(releases)
    /\ dpc' = IF download_options'.none THEN "returned" ELSE "auto_update_check"
    /\ UNCHANGED <<is_debug, is_delete, releases, combo_key, auto_update, file_ver,
                   selected_release, url_ver, prompts, downloads, extracted,
                   deleted, raised>>
    /\ UNCHANGED notDl

\* lines 399-403 and 431-433: the answer to the prompt, and the version of
\* the local library
AutoUpdateCheck ==
    /\ dpc = "auto_update_check"
    /\ \E answer \in {"n", "N", "y"} : auto_update' = (answer \notin {"N", "n"})
    /\ file_ver' \in LocalVersions
    /\ dpc' = "select"
    /\ UNCHANGED <<is_debug, is_delete, releases, combo_key, download_options,
                   selected_release, url_ver, prompts, downloads, extracted,
                   deleted, raised>>
    /\ UNCHANGED notDl

\* line 405 with lines 240-250: the automatic selection
SelectAuto ==
    /\ dpc = "select"
    /\ auto_update
    /\ url_ver' = IF download_options.list = <<>> THEN PyNone
                  ELSE auto_ver_select(download_options.list[1].assets, combo_key)
    /\ dpc' = "selected"
    /\ UNCHANGED <<is_debug, is_delete, releases, combo_key, download_options,
                   auto_update, file_ver, selected_release, prompts, downloads,
                   extracted, deleted, raised>>
    /\ UNCHANGED notDl

\* line 405 with lines 252-283: one answer to the version prompt
ChooseVersion ==
    /\ dpc = "select"
    /\ ~auto_update
    /\ \E choice \in Choices :
           IF Quits(choice)
           THEN /\ url_ver' = PyNone
                /\ dpc' = "selected"
                /\ UNCHANGED <<selected_release, prompts>>
           ELSE IF IsInt(choice) /\ int(choice) < Len(download_options.list)
           THEN /\ selected_release' = int(choice)
                /\ IF download_options.list[int(choice) + 1].assets = <<>>
                   THEN url_ver' = PyNone /\ dpc' = "selected"
                   ELSE dpc' = "custum_ver_select" /\ UNCHANGED url_ver
                /\ UNCHANGED prompts
           ELSE /\ prompts < MaxPrompts
                /\ prompts' = prompts + 1
                /\ UNCHANGED <<selected_release, url_ver, dpc>>
    /\ UNCHANGED <<is_debug, is_delete, releases, combo_key, download_options,
                   auto_update, file_ver, downloads, extracted, deleted, raised>>
    /\ UNCHANGED notDl

\* line 279 with lines 162-184: one answer to the asset prompt
ChooseAsset ==
    /\ dpc = "custum_ver_select"
    /\ LET resource_list == download_options.list[selected_release + 1].assets
       IN  \E choice \in Choices :
               IF Quits(choice)
               THEN /\ url_ver' = PyFalse
                    /\ dpc' = "selected"
                    /\ UNCHANGED prompts
               ELSE IF IsInt(choice) /\ int(choice) < Len(resource_list)
               THEN /\ url_ver' = PyStr(resource_list[int(choice) + 1].url)
                    /\ dpc' = "selected"
                    /\ UNCHANGED prompts
               ELSE /\ prompts < MaxPrompts
                    /\ prompts' = prompts + 1
                    /\ UNCHANGED <<url_ver, dpc>>
    /\ UNCHANGED <<is_debug, is_delete, releases, combo_key, download_options,
                   auto_update, file_ver, selected_release, downloads, extracted,
                   deleted, raised>>
    /\ UNCHANGED notDl

\* lines 406-408
NoUrl ==
    /\ dpc = "selected"
    /\ url_ver = PyNone
    /\ dpc' = "returned"
    /\ UNCHANGED <<is_debug, is_delete, releases, combo_key, download_options,
                   auto_update, file_ver, selected_release, url_ver, prompts,
                   downloads, extracted, deleted, raised>>
    /\ UNCHANGED notDl

\* lines 409-415 and 421-422
CheckVersion ==
    /\ dpc = "selected"
    /\ url_ver # PyNone
    /\ LET checked == check_version(file_ver, url_ver)
       IN  IF checked.raises
           THEN raised' = "TypeError" /\ dpc' = "raised"
           ELSE /\ dpc' = IF ~checked.value \/ is_debug \/ ~is_delete
                          THEN "download" ELSE "cleanup"
                /\ UNCHANGED raised
    /\ UNCHANGED <<is_debug, is_delete, releases, combo_key, download_options,
                   auto_update, file_ver, selected_release, url_ver, prompts,
                   downloads, extracted, deleted>>
    /\ UNCHANGED notDl

\* lines 416-417 with download_file, lines 300-309: the request is made,
\* and answers or raises
Download ==
    /\ dpc = "download"
    /\ downloads' = downloads + 1
    /\ \E answered \in BOOLEAN :
           IF answered
           THEN dpc' = "unzip" /\ UNCHANGED raised
           ELSE raised' = "RequestException" /\ dpc' = "raised"
    /\ UNCHANGED <<is_debug, is_delete, releases, combo_key, download_options,
                   auto_update, file_ver, selected_release, url_ver, prompts,
                   extracted, deleted>>
    /\ UNCHANGED notDl

\* lines 418-420 with unzip, lines 312-362: the archive is extracted, or
\* is no archive (caught), or the target directory cannot be made
Unzip ==
    /\ dpc = "unzip"
    /\ \E outcome \in {"True", "False", "OSError"} :
           /\ extracted' = (outcome = "True")
           /\ IF outcome = "OSError"
              THEN raised' = "OSError" /\ dpc' = "raised"
              ELSE dpc' = "cleanup" /\ UNCHANGED raised
    /\ UNCHANGED <<is_debug, is_delete, releases, combo_key, download_options,
                   auto_update, file_ver, selected_release, url_ver, prompts,
                   downloads, deleted>>
    /\ UNCHANGED notDl

\* lines 424-428
Cleanup ==
    /\ dpc = "cleanup"
    /\ deleted' = (~is_debug /\ is_delete)
    /\ dpc' = "returned"
    /\ UNCHANGED <<is_debug, is_delete, releases, combo_key, download_options,
                   auto_update, file_ver, selected_release, url_ver, prompts,
                   downloads, extracted, raised>>
    /\ UNCHANGED notDl

DlNext ==
    \/ GetOptions
    \/ AutoUpdateCheck
    \/ SelectAuto
    \/ ChooseVersion
    \/ ChooseAsset
    \/ NoUrl
    \/ CheckVersion
    \/ Download
    \/ Unzip
    \/ Cleanup

InitStrip == StripCall /\ MainIdle /\ FileIdle /\ ImportIdle /\ RefIdle /\ DlIdle
NextStrip == StripNext
SpecStrip == InitStrip /\ [][NextStrip]_vars

\* the interpreter goes on running the loop of line 32 and the return of
\* line 70 as long as there is one to run
SpecStripLive == SpecStrip /\ WF_vars(NextStrip)

Init == MainStart /\ Imported /\ StripIdle /\ FileIdle /\ RefIdle /\ DlIdle
Next == MainNext
Spec == Init /\ [][Next]_vars

InitFile == FileCall /\ MainIdle /\ StripIdle /\ ImportIdle /\ RefIdle /\ DlIdle
NextFile == FileNext
SpecFile == InitFile /\ [][NextFile]_vars

InitRef == FactoryCall /\ Imported /\ MainIdle /\ StripIdle /\ FileIdle /\ DlIdle
NextRef == RefNext
SpecRef == InitRef /\ [][NextRef]_vars

InitDl == DlCall /\ MainIdle /\ StripIdle /\ FileIdle /\ ImportIdle /\ RefIdle
NextDl == DlNext
SpecDl == InitDl /\ [][NextDl]_vars


(***************************************************************************)
(* The validation run: what the claims speak of.                           *)
(***************************************************************************)

\* the run has ended: the summary and sys.exit, or an uncaught exception
Terminal == pc \in {"done", "crashed"}

\* the glob loop and the root schema are through
RegistryBuilt == pc \notin {"idle", "glob"}

RootLoads == load_jsonc(schemaKind[PipelineSchema]) = "document"

AllEmpty == \A k \in 1..Len(reports) : reports[k].errors = 0
AnyFailed == \E k \in 1..Len(reports) : reports[k].errors > 0

ReportedFiles == [k \in 1..Len(reports) |-> reports[k].file]

\* the files the resource loops are to validate, in their order
RECURSIVE ResourceVisits(_)
ResourceVisits(k) ==
    IF k > Len(resource_dirs) THEN <<>>
    ELSE LET dir == resource_dirs[k]
             NotExcluded(f) == ~is_excluded(f, exclude_dirs)
         IN  (IF Exists(dir)
              THEN SelectSeq(rglob(dir, ".json") \o rglob(dir, ".jsonc"), NotExcluded)
              ELSE <<>>) \o ResourceVisits(k + 1)

\* the interface files the interface loop is to validate
InterfaceVisits == SelectSeq(interface_files, Exists)

\* C2: when the run ends with its summary, the exit code is 0 if every
\* validated file of both phases reported no error and 1 otherwise; and once
\* a file has failed the flag stays false, so that the run cannot end in 0.
C2_ExitCodeIffAllEmpty ==
    /\ pc = "done" => /\ exit_code \in {0, 1}
                      /\ exit_code = 0 <=> AllEmpty
    /\ AnyFailed => ~all_valid
    /\ (Terminal /\ AnyFailed) => exit_code = 1

\* C2 witness: a failed file followed by a file that passed, at the end
C2_Witness ==
    /\ pc = "done"
    /\ exit_code = 1
    /\ Len(reports) >= 2
    /\ reports[1].errors > 0
    /\ reports[Len(reports)].errors = 0

\* C3: when the root schema is missing or does not parse, the run never gets
\* to validate a file: no report, no pipeline validator, no summary, and it
\* ends with exit code 1.
C3_RootSchemaFatal ==
    ~RootLoads =>
        /\ pc \in {"glob", "crashed"}
        /\ reports = <<>>
        /\ pipeline_validator = NoValidator
        /\ summary = "none"
        /\ pc = "crashed" => exit_code = 1

\* C3 witness: the run has died on an unparsable root schema although there
\* was a resource directory to validate
C3_Witness ==
    /\ pc = "crashed"
    /\ exit_code = 1
    /\ schemaKind[PipelineSchema] = "undecodable"
    /\ ResourceVisits(1) # <<>>

\* C4: a file that fails (schema errors, not JSON, unreadable) gets a report
\* with a false result and nothing is raised; and in a run with a failed file
\* the files validated are all those the loops are to visit: every
\* non-excluded file of every existing resource directory, and every existing
\* interface file once the interface validator is bound.
C4_FailureIsLocal ==
    /\ \A f \in DOMAIN fileKind :
           \E k \in 1..Len(reports) :
               /\ reports[k].file = f
               /\ reports[k].ret = (fileKind[f] = "valid")
    /\ (Terminal /\ AnyFailed) =>
           ReportedFiles = ResourceVisits(1) \o
               (IF interface_validator # NoValidator THEN InterfaceVisits ELSE <<>>)

\* C4 witness: the first file could not be loaded, and the run went on to
\* the last interface file
C4_Witness ==
    /\ pc = "done"
    /\ Len(reports) >= 3
    /\ fileKind[reports[1].file] \in {"undecodable", "unreadable"}
    /\ ~reports[1].ret
    /\ reports[Len(reports)].file = InterfaceFile

\* C5: a run that ends before its summary has failed to load the root
\* schema: with a root schema that loads, every run ends in Done with the
\* summary line and the exit code.
C5_OnlyRootSchemaFatal ==
    (Terminal /\ RootLoads) => (pc = "done" /\ summary # "none")

\* C6 as claimed: the three keys of every schema file that loads hold one
\* and the same document instance.
C6_SameInstance ==
    RegistryBuilt =>
        \A f \in SchemaFiles :
            load_jsonc(schemaKind[f]) = "document" =>
                /\ {file_uri(f), relative_path(f), absolute_path(f)} \subseteq DOMAIN schema_store
                /\ schema_store[file_uri(f)] = schema_store[relative_path(f)]
                /\ schema_store[file_uri(f)] = schema_store[absolute_path(f)]

\* C6 as amended: the three keys of every schema file that loads hold
\* documents of the same content; ./<filename> and /<filename> hold one and
\* the same instance, and the file URI holds that instance too unless main
\* has loaded the file again (pipeline.schema.json at line 267,
\* interface.schema.json at line 313) and bound the file URI to the new one.
C6_SameContent ==
    RegistryBuilt =>
        \A f \in SchemaFiles :
            load_jsonc(schemaKind[f]) = "document" =>
                /\ {file_uri(f), relative_path(f), absolute_path(f)} \subseteq DOMAIN schema_store
                /\ schema_store[file_uri(f)].content = f
                /\ schema_store[relative_path(f)].content = f
                /\ schema_store[relative_path(f)] = schema_store[absolute_path(f)]
                /\ \/ schema_store[file_uri(f)] = schema_store[relative_path(f)]
                   \/ f = PipelineSchema /\ schema_store[file_uri(f)].loaded = 267
                   \/ f = InterfaceSchema /\ schema_store[file_uri(f)].loaded = 313

\* C6 witness: the interface schema is held as two instances
C6_Witness ==
    /\ pc = "done"
    /\ file_uri(InterfaceSchema) \in DOMAIN schema_store
    /\ schema_store[file_uri(InterfaceSchema)].loaded = 313
    /\ schema_store[relative_path(InterfaceSchema)].loaded = 253

\* C7 as claimed: once the root-schema validator exists the registry is
\* never written again.
C7_NeverWrittenAgain ==
    [][RegistryBuilt => schema_store' = schema_store]_vars

\* C7 as amended: once the root-schema validator exists the registry is not
\* written during ValidatingResources; entering ValidatingInterfaces writes it
\* once, binding the file URI of interface.schema.json to a newly loaded
\* document of the same content.  No key is added or removed, no other key
\* is rebound, and the registry of the pipeline validator never changes.
C7_OneRebinding ==
    [][RegistryBuilt =>
        /\ pipeline_validator' = pipeline_validator
        /\ \/ schema_store' = schema_store
           \/ /\ pc = "resources" /\ pc' = "interfaces"
              /\ DOMAIN schema_store' = DOMAIN schema_store
              /\ \A k \in DOMAIN schema_store :
                     /\ k # file_uri(InterfaceSchema) => schema_store'[k] = schema_store[k]
                     /\ schema_store'[k].content = schema_store[k].content]_vars

\* C7 witness: the interface phase runs on a registry written after the
\* resources were validated
C7_Witness ==
    /\ pc = "interfaces"
    /\ reports # <<>>
    /\ schema_store[file_uri(InterfaceSchema)].loaded = 313
    /\ pipeline_validator.registry # schema_store

\* the file lies under a directory of --exclude-dirs
UnderExcluded(f) ==
    \E d \in exclude_dirs :
        Len(d) <= Len(f) /\ \A k \in 1..Len(d) : f[k] = d[k]

\* the file lies under a directory of --resource-dirs that exists
UnderResourceDir(f) ==
    \E k \in 1..Len(resource_dirs) :
        LET d == resource_dirs[k]
        IN  /\ Exists(d)
            /\ Len(d) < Len(f)
            /\ \A j \in 1..Len(d) : f[j] = d[j]

\* the resource loops of lines 289-307 are through
ResourcesDone ==
    \/ pc \in {"interfaces", "summary", "done"}
    \/ pc = "resources" /\ dirIdx > Len(resource_dirs)

\* C11: a file under a directory of --exclude-dirs is never read and never
\* reported, be the excluded directory a resource directory itself or not,
\* so that the exit code is that of the files that are not excluded; and
\* when the resource loops are through every other *.json / *.jsonc file
\* under an existing resource directory has been validated against the
\* pipeline schema.
C11_ExcludedNeverValidated ==
    /\ \A f \in ResourceFiles :
           UnderExcluded(f) =>
               /\ f \notin DOMAIN fileKind
               /\ \A k \in 1..Len(reports) : reports[k].file # f
    /\ pc = "done" =>
           (exit_code = 0 <=>
                \A f \in DOMAIN fileKind : UnderExcluded(f) \/ fileKind[f] = "valid")
    /\ ResourcesDone =>
           \A f \in ResourceFiles :
               (UnderResourceDir(f) /\ ~UnderExcluded(f)) =>
                   \E k \in 1..Len(reports) :
                       /\ reports[k].file = f
                       /\ reports[k].schema = PipelineSchema

\* C11 witness: the excluded directory is the first resource directory; its
\* file was never read, the file beside it was validated
C11_Witness ==
    /\ pc = "done"
    /\ resource_dirs = <<SubDir, ResourceDir>>
    /\ exclude_dirs = {SubDir}
    /\ FileB \notin DOMAIN fileKind
    /\ \E k \in 1..Len(reports) : reports[k].file = FileA

\* a step that skips: a schema of the glob that fails to load, a resource
\* directory or an interface file that does not exist (each prints a
\* warning), or the interface phase left out for want of its schema
SkipStep ==
    \/ warnings' # warnings
    \/ pc = "resources" /\ pc' = "summary"

\* the fatal conditions of C3 and C5: the root schema does not load, or the
\* interface schema is there and does not parse
FatalLoad == ~RootLoads \/ schemaKind[InterfaceSchema] = "undecodable"

\* C15: a step that skips (an auxiliary schema that fails to parse, a
\* resource directory that does not exist, an interface file that does not
\* exist, the interface phase without interface schema) leaves the success
\* flag as it was and does not end the run; a run without fatal load ends
\* in Done whatever it skipped; and a run that validated nothing ends with
\* exit code 0.
C15_SkipsAreHarmless ==
    /\ [][SkipStep => /\ all_valid' = all_valid
                       /\ exit_code' = exit_code
                       /\ ~Terminal']_vars
    /\ []((Terminal /\ ~FatalLoad) => pc = "done")
    /\ []((pc = "done" /\ reports = <<>>) => (all_valid /\ exit_code = 0))

\* C15 witness: the auxiliary schema did not parse, no resource directory
\* and no interface file existed; three warnings, nothing validated, Done
\* with exit code 0
C15_Witness ==
    /\ pc = "done"
    /\ schemaKind[AuxSchema] = "undecodable"
    /\ \A k \in 1..Len(resource_dirs) : ~Exists(resource_dirs[k])
    /\ schemaKind[InterfaceSchema] = "valid"
    /\ \A k \in 1..Len(interface_files) : ~Exists(interface_files[k])
    /\ warnings >= 3
    /\ reports = <<>>
    /\ exit_code = 0

(***************************************************************************)
(* The diagnostics of one file: what the claims speak of.                  *)
(***************************************************************************)

Min(a, b) == IF a < b THEN a ELSE b

\* the annotation of the k-th error carries its message, its path and the
\* line clause exactly when find_line_number returned a line
AnnotatesError(k) ==
    LET path == PathOf(errors[k].path)
        line_num == find_line_number(file_lines, can_reread, path)
    IN  /\ stdout[k].title = "Schema Validation Error"
        /\ stdout[k].message = errors[k].message
        /\ stdout[k].path = path
        /\ stdout[k].has_line <=> line_num # None
        /\ stdout[k].has_line => stdout[k].line = line_num

\* C9 as claimed: when validate_file has returned for a file with errors,
\* every one of its errors has an annotation line of its own, with the line
\* clause exactly when the locator returned a line.
C9_EveryErrorAnnotated ==
    (vpc = "returned" /\ errors # <<>>) =>
        /\ Len(stdout) = Len(errors)
        /\ \A k \in 1..Len(stdout) : AnnotatesError(k)

\* C9 as amended: when validate_file has returned for a file with errors,
\* each of its first 10 errors (all of them when there are at most 10) has an
\* annotation line of its own, in order, and the later errors have none; the
\* line clause is there exactly when the locator returned a line.
C9_FirstTenAnnotated ==
    /\ (vpc = "returned" /\ errors # <<>>) =>
           Len(stdout) = Min(Len(errors), AnnotationLimit)
    /\ ~load_raises => \A k \in 1..Len(stdout) : AnnotatesError(k)

\* C9 witness: a file with more than 10 errors, annotated with and without
\* line clause
C9_Witness ==
    /\ vpc = "returned"
    /\ Len(errors) > AnnotationLimit
    /\ Len(stdout) = AnnotationLimit
    /\ \E k \in 1..Len(stdout) : stdout[k].has_line
    /\ \E k \in 1..Len(stdout) : ~stdout[k].has_line

\* the line the claim gives an error: that of the first line matching the
\* first segment of its pointer as a key
ClaimedLine(lines, readable, pointer) ==
    IF pointer = <<>> \/ ~readable THEN None
    ELSE FirstMatch(lines, str(pointer[1]))

\* C10: the line located for every reported error is the number of the
\* first line that matches the first segment of its pointer, followed by
\* optional whitespace and a colon; none exactly when the pointer is empty,
\* no line matches, or the file cannot be read again.
C10_LineOfFirstSegment ==
    \A k \in 1..Len(stdout) :
        stdout[k].title = "Schema Validation Error" =>
            stdout[k].line = ClaimedLine(file_lines, can_reread, errors[k].path)


(***************************************************************************)
(* Reference resolution: what the claims speak of.                         *)
(***************************************************************************)

\* C8: no retrieval of a schema reference over the network is ever tried,
\* whichever way create_validator built the validator: a $ref whose target
\* is a key of the registry resolves to the document under that key, and a
\* $ref whose target is no key fails as unresolved, without a fetch.
C8_NoRemoteRetrieval ==
    /\ \A uri \in retrieved : ~IsRemote(uri)
    /\ \A k \in 1..Len(resolutions) :
           LET r == resolutions[k]
           IN  IF r.target \in DOMAIN given_store
               THEN r.outcome = "resolved" /\ r.doc = given_store[r.target]
               ELSE r.outcome \in {"Unresolvable", "RefResolutionError"}

\* the root schema declares a "$schema" that holds the fragment
Declares(fragment) == dollar_schema.has /\ Contains(dollar_schema.uri, fragment)

\* C12: the validator class create_validator gets for its root schema is
\* that of draft-07 when "$schema" holds "draft-07", and that of 2020-12
\* when it holds "2020-12" (and no draft-07 fragment, which is looked for
\* first), when there is no "$schema", and when "$schema" holds none of the
\* fragments looked for; and with the referencing library every resource of
\* the registry is given the specification of the class selected.
C12_DraftDispatch ==
    rpc = "validating" =>
        /\ Declares(Draft07Dash) => ValidatorClass = "Draft7Validator"
        /\ (Declares(Y2020) /\ ~Declares(Draft07Dash) /\ ~Declares(Draft07Slash)) =>
               ValidatorClass = "Draft202012Validator"
        /\ ~dollar_schema.has => ValidatorClass = "Draft202012Validator"
        /\ (~Declares(Draft07Dash) /\ ~Declares(Draft07Slash) /\ ~Declares(Y2020)) =>
               ValidatorClass = "Draft202012Validator"
        /\ ValidatorClass \in {"Draft7Validator", "Draft202012Validator"}
        /\ HAS_REFERENCING =>
               /\ ValidatorClass = "Draft7Validator" => spec = "DRAFT7"
               /\ ValidatorClass = "Draft202012Validator" => spec = "DRAFT202012"

\* C12 witness: a draft-07 root schema with a registry of draft-07
\* resources, after a reference was resolved
C12_Witness ==
    /\ rpc = "validating"
    /\ HAS_REFERENCING
    /\ Declares(Draft07Dash)
    /\ ~Declares(Y2020)
    /\ ValidatorClass = "Draft7Validator"
    /\ spec = "DRAFT7"
    /\ resolutions # <<>>

(***************************************************************************)
(* The comment stripper: what the claims speak of.  The scanner of the     *)
(* specification (Normal / InString / StringEscape, with the two kinds of  *)
(* comment it consumes) marks every position of a text: "N" a character    *)
(* outside literals and comments; "SO", "S", "SC" the opening quote, the    *)
(* inside and the closing quote of a string literal; "LO", "L" the first   *)
(* and the other characters of a // comment, its newline included; "BO",   *)
(* "B" the first and the other characters of a block comment.              *)
(***************************************************************************)
RECURSIVE RefMarks(_, _, _)
RefMarks(t, k, st) ==
    IF k > Len(t) THEN <<>>
    ELSE IF st = "InString"
    THEN IF t[k] = BS THEN <<"S">> \o RefMarks(t, k + 1, "StringEscape")
         ELSE IF t[k] = DQ THEN <<"SC">> \o RefMarks(t, k + 1, "Normal")
         ELSE <<"S">> \o RefMarks(t, k + 1, "InString")
    ELSE IF st = "StringEscape"
    THEN <<"S">> \o RefMarks(t, k + 1, "InString")
    ELSE IF st = "LineComment"
    THEN <<"L">> \o RefMarks(t, k + 1, IF t[k] = NL THEN "Normal" ELSE "LineComment")
    ELSE IF st = "BlockComment"
    THEN IF k < Len(t) /\ t[k] = ST /\ t[k + 1] = SL
         THEN <<"B", "B">> \o RefMarks(t, k + 2, "Normal")
         ELSE <<"B">> \o RefMarks(t, k + 1, "BlockComment")
    ELSE IF t[k] = DQ
    THEN <<"SO">> \o RefMarks(t, k + 1, "InString")
    ELSE IF k < Len(t) /\ t[k] = SL /\ t[k + 1] = SL
    THEN <<"LO", "L">> \o RefMarks(t, k + 2, "LineComment")
    ELSE IF k < Len(t) /\ t[k] = SL /\ t[k + 1] = ST
    THEN <<"BO", "B">> \o RefMarks(t, k + 2, "BlockComment")
    ELSE <<"N">> \o RefMarks(t, k + 1, "Normal")

Marks(t) == RefMarks(t, 1, "Normal")

InComment(mark) == mark \in {"LO", "L", "BO", "B"}

\* what the scanner of the specification emits for the first n characters:
\* every character outside comments, and the newlines of the comments
RECURSIVE RefEmitted(_, _, _)
RefEmitted(t, marks, n) ==
    IF n = 0 THEN <<>>
    ELSE RefEmitted(t, marks, n - 1) \o
             (IF ~InComment(marks[n]) \/ t[n] = NL THEN <<t[n]>> ELSE <<>>)

\* the closed string literals of a text, a..b: a the opening quote, b the
\* closing quote
StringRuns(t) ==
    LET marks == Marks(t)
    IN  {r \in (1..Len(t)) \X (1..Len(t)) :
            /\ r[1] < r[2]
            /\ marks[r[1]] = "SO"
            /\ marks[r[2]] = "SC"
            /\ \A k \in (r[1] + 1)..(r[2] - 1) : marks[k] = "S"}

\* a comment-like sequence, // or /*, at position k
CommentLike(t, k) ==
    k < Len(t) /\ t[k] = SL /\ t[k + 1] \in {SL, ST}

\* C13: every string literal of the input, from its opening quote to its
\* closing quote, with whatever comment-like sequences and escaped quotes
\* it holds, stands character for character in the text returned, right
\* after what is returned for the text before it (so the literals come in
\* their order).
C13_LiteralsVerbatim ==
    spc = "returned" =>
        \A r \in StringRuns(text) :
            LET before == Len(RefEmitted(text, Marks(text), r[1] - 1))
            IN  /\ before + (r[2] - r[1] + 1) <= Len(result)
                /\ SubSeq(result, before + 1, before + (r[2] - r[1] + 1))
                       = SubSeq(text, r[1], r[2])

\* C13 witness: a text was returned with a comment stripped from it and
\* with a literal that holds an escaped quote and a comment-like sequence
C13_Witness ==
    /\ spc = "returned"
    /\ Len(result) < Len(text)
    /\ \E r \in StringRuns(text) :
           /\ \E k \in r[1]..(r[2] - 2) : text[k] = BS /\ text[k + 1] = DQ
           /\ \E k \in r[1]..(r[2] - 1) : CommentLike(text, k)

\* the text has no comment outside its string literals
CommentFree(t) == \A k \in 1..Len(t) : ~InComment(Marks(t)[k])

\* C14: stripping the text that strip_jsonc_comments returned returns it
\* unchanged, for every input text; and an input text with no comment
\* outside its string literals is itself returned unchanged.
C14_Idempotent ==
    spc = "returned" =>
        /\ strip_jsonc_comments(result) = result
        /\ CommentFree(text) => result = text

\* C14 witness: comments were stripped from a text, and what is left still
\* holds a slash and a literal with a comment-like sequence
C14_Witness ==
    /\ spc = "returned"
    /\ result # text
    /\ \E k \in 1..Len(result) : result[k] = SL
    /\ \E r \in StringRuns(result) : \E k \in r[1]..r[2] : CommentLike(result, k)
    /\ strip_jsonc_comments(result) = result

\* the output of the scanner of the specification
RefOutput(t) == RefEmitted(t, Marks(t), Len(t))

\* C16: for every input text, the text strip_jsonc_comments returns is the
\* output of the three-state scanner of the specification: a // comment
\* leaves the newline that ends it, a block comment (closed by the first */,
\* or running to the end of the input) leaves one newline for each newline
\* in it, and every other character is emitted as it is.
C16_EqualsSpecScanner ==
    spc = "returned" => result = RefOutput(text)

\* the block comment that begins at a has no end: the rest of the text is
\* inside it and the text does not end with its */
UnterminatedBlock(t, a) ==
    /\ Marks(t)[a] = "BO"
    /\ \A k \in (a + 1)..Len(t) : Marks(t)[k] = "B"
    /\ ~(Len(t) >= a + 3 /\ t[Len(t) - 1] = ST /\ t[Len(t)] = SL)

\* the string literal that begins at a has no closing quote
UnterminatedString(t, a) ==
    /\ Marks(t)[a] = "SO"
    /\ \A k \in (a + 1)..Len(t) : Marks(t)[k] = "S"

\* C17: strip_jsonc_comments returns for every input text; every iteration
\* of its loop moves the read index forward; the text returned never is
\* longer than the input (nor than what was read of it); after an
\* unterminated block comment nothing of the input is returned but
\* newlines; and an unterminated string literal ends the text returned,
\* character for character.
C17_Terminates ==
    /\ <>(spc = "returned")
    /\ [][(spc = "scan" /\ spc' = "scan") => i' > i]_vars
    /\ [](Len(result) <= Len(text) /\ Len(result) <= i)
    /\ [](spc = "returned" =>
             \A a \in 1..Len(text) :
                 LET before == RefEmitted(text, Marks(text), a - 1)
                 IN  /\ UnterminatedBlock(text, a) =>
                            /\ Len(before) <= Len(result)
                            /\ SubSeq(result, 1, Len(before)) = before
                            /\ \A k \in (Len(before) + 1)..Len(result) : result[k] = NL
                     /\ UnterminatedString(text, a) =>
                            result = before \o SubSeq(text, a, Len(text)))

\* C17 witness: a text with a comment, a literal and then a block comment
\* without end has been returned
C17_Witness ==
    /\ spc = "returned"
    /\ \E a \in 3..Len(text) : UnterminatedBlock(text, a) /\ a < Len(text) - 1
    /\ \E k \in 1..Len(text) : Marks(text)[k] = "SC"
    /\ i > Len(text)

(***************************************************************************)
(* The framework downloader: what the claims speak of.                     *)
(***************************************************************************)

\* the selection step is through and has yielded no download URL
NoUrlSelected == url_ver \in {PyNone, PyFalse}

\* C18: whenever the selection yields no download URL (None from
\* select_download_resource, False from auto_ver_select or from
\* custum_ver_select), main makes no download and no extraction and ends
\* without an error.
C18_NoUrlNoDownload ==
    NoUrlSelected =>
        /\ downloads = 0
        /\ ~extracted
        /\ raised = "none"
        /\ dpc \in {"selected", "returned"}

\* C1: for every input text, the text returned by strip_jsonc_comments has
\* exactly as many newline characters as the input.
C1_NewlinesPreserved ==
    spc = "returned" => Newlines(result) = Newlines(text)

=============================================================================
